---- MODULE Spec2Model ----
(***************************************************************************)
(* Model of src/app.py, the Streamlit script of the NFL GPP Monte Carlo    *)
(* simulator.  One browser session is modelled: the widgets (file          *)
(* uploader, number input, run button), the script's local data frame df,  *)
(* numpy's process-wide random generator and st.session_state.results.     *)
(*                                                                         *)
(* Numbers.  A float column value x is held as the integer x * Scale.      *)
(* The factors drawn by np.random.uniform(0.95, 1.05) and (0.25, 0.35)     *)
(* are held in units of 1 / FactorUnit.  Every product and quotient the    *)
(* script computes is exact at these units, so the arithmetic below is     *)
(* the arithmetic of the reals; float64 rounding is not modelled.          *)
(* NaN (the float 0.0 / 0.0 of pandas) is the value NaN, outside the       *)
(* range of every number the model computes.                               *)
(*                                                                         *)
(* The generator.  np.random is a deterministic generator whose state is   *)
(* global to the process: seed(42) resets it and every draw advances it.   *)
(* MT19937 is modelled by a small linear congruential generator with the   *)
(* same interface; a draw of uniform(low, high) lands on one of Grid       *)
(* equally spaced points of [low, high).                                   *)
(***************************************************************************)
EXTENDS Integers, Sequences, FiniteSets

VARIABLES
    uploaded,   \* uploaded_file: <<>> (None) or <<table>> (the CSV's content)
    n_sims,     \* the "Number of Simulations" input
    results,    \* st.session_state.results: <<>> (None) or <<table>>
    rng,        \* state of numpy's global generator
    pc,         \* position of the running script: "idle" or the progress reached
    df,         \* the script's local df while a run is in progress, else <<>>
    shown,      \* what the results pane rendered last: <<>> (Awaiting Data) or <<view>>
    ran,        \* history: the uploaded table the last completed run read
    ref         \* history: one remembered completed run (input, output)

vars == <<uploaded, n_sims, results, rng, pc, df, shown, ran, ref>>

-----------------------------------------------------------------------------
(* Bounds of the model *)

MaxPlayers == 2        \* rows of an uploaded table (general tables)
MaxRankPlayers == 11   \* rows of the tables of the ranking specification
MaxDetPlayers == 2     \* rows of the tables of the determinism specification

-----------------------------------------------------------------------------
(* Numbers *)

Scale == 160000
FactorUnit == 40
Grid == 4
NaN == -(2^30)

RngModulus == 64
RngMultiplier == 5
RngIncrement == 3
RngSeed == 42

TopK == 10

None == <<>>
Some(x) == <<x>>

NSimsChoices == {10000, 100000}

-----------------------------------------------------------------------------
(* numpy's generator *)

\* np.random.seed(42) left out: the generator keeps its state
ReseedKept(seed) == rng

Reseed(seed) == seed % RngModulus

RngNext(s) == (RngMultiplier * s + RngIncrement) % RngModulus

Level(s) == s \div (RngModulus \div Grid)

RECURSIVE RngStates(_, _)
RngStates(s, n) ==
    IF n = 0 THEN <<>>
    ELSE LET s1 == RngNext(s) IN <<s1>> \o RngStates(s1, n - 1)

\* np.random.uniform(low, high, n) from state s: the n values and the state after
Uniform(low, high, n, s) ==
    LET st == RngStates(s, n)
    IN  [vals  |-> [i \in 1..n |-> low + ((high - low) * Level(st[i])) \div Grid],
         state |-> IF n = 0 THEN s ELSE st[n]]

-----------------------------------------------------------------------------
(* Data frames: cols is the header in order, rows[i] maps column -> value *)

HasCol(t, c) == \E k \in 1..Len(t.cols) : t.cols[k] = c

NRows(t) == Len(t.rows)

Col(t, c) == [i \in 1..NRows(t) |-> t.rows[i][c]]

\* df[c] = vals: an existing column is overwritten in place, a new one appended
SetCol(t, c, vals) ==
    [cols |-> IF HasCol(t, c) THEN t.cols ELSE Append(t.cols, c),
     rows |-> [i \in 1..NRows(t) |->
                 [k \in (DOMAIN t.rows[i]) \cup {c} |->
                     IF k = c THEN vals[i] ELSE t.rows[i][k]]]]

\* read_csv(..., skiprows = [1]): the first data row is lost
ReadCsvSkipRow(file) ==
    [cols |-> file.cols,
     rows |-> IF file.rows = <<>> THEN <<>> ELSE Tail(file.rows)]

\* pd.read_csv(uploaded_file): a fresh frame with the file's content
ReadCsv(file) == file

-----------------------------------------------------------------------------
(* The simulation body of the script, lines 69-105 *)

ProjCandidates == <<"FPTS", "Projection", "Points", "Avg", "proj", "FP">>

DerivedCols == {"Sim_Mean", "Sim_StdDev", "Floor_10%", "Ceiling_90%", "Boom_Score",
                "Bust_Risk", "Leverage_Score", "Ceiling_Prob", "Consistency"}

\* the first candidate header the frame has, "" when it has none (proj_col is None)
DetectProjCol(t) ==
    LET hits == {k \in 1..Len(ProjCandidates) : HasCol(t, ProjCandidates[k])}
    IN  IF hits = {} THEN ""
        ELSE ProjCandidates[CHOOSE k \in hits : \A j \in hits : k <= j]

\* x * f for a drawn factor f
MulFactor(x, f) == (x * f) \div FactorUnit

\* 1.28 * x
Times128(x) == (x * 32) \div 25

\* x / y of two floats: NaN for 0 / 0
Divide(x, y) ==
    IF y = 0 THEN NaN
    ELSE ((x * FactorUnit) \div y) * (Scale \div FactorUnit)

\* the sign of the spread is wrong
FloorOfPlus(mean, std) == mean + Times128(std)

FloorOf(mean, std) == mean - Times128(std)

CeilingOf(mean, std) == mean + Times128(std)

\* the score is taken for a fraction: 1 - boom
BustRiskFraction(boom) == Scale - boom

BustRisk(boom) == 100 * Scale - boom

CeilingProb(boom) == boom \div 100

ConsistencyOf(mean, std) ==
    LET q == Divide(std, mean)
    IN  IF q = NaN THEN NaN ELSE 100 * Scale - q * 100

\* uniform(0, 5) instead of uniform(5, 30)
FabricateLow(t, s) ==
    LET u == Uniform(0, 5 * Scale, NRows(t), s)
    IN  [frame |-> SetCol(t, "Projection", u.vals), proj_col |-> "Projection",
         state |-> u.state]

\* lines 78-81: a Projection column of uniform(5, 30) draws
Fabricate(t, s) ==
    LET u == Uniform(5 * Scale, 30 * Scale, NRows(t), s)
    IN  [frame |-> SetCol(t, "Projection", u.vals), proj_col |-> "Projection",
         state |-> u.state]

\* lines 48 and 69-81: read the file, seed, find or fabricate the projections
Prepare(file) ==
    LET t == ReadCsv(file)
        s == Reseed(RngSeed)
        c == DetectProjCol(t)
    IN  IF c = "" THEN Fabricate(t, s)
        ELSE [frame |-> t, proj_col |-> c, state |-> s]

\* df[proj_col] *= ...: the mean is written over the projection column too
WithVarianceInPlace(t, proj_col, s) ==
    LET n  == NRows(t)
        u  == Uniform(38, 42, n, s)
        t0 == SetCol(t, proj_col,
                     [i \in 1..n |-> MulFactor(t.rows[i][proj_col], u.vals[i])])
        t1 == SetCol(t0, "Sim_Mean", Col(t0, proj_col))
        v  == Uniform(10, 14, n, u.state)
        t2 == SetCol(t1, "Sim_StdDev",
                     [i \in 1..n |-> MulFactor(t1.rows[i]["Sim_Mean"], v.vals[i])])
    IN  [frame |-> t2, proj_col |-> proj_col, state |-> v.state]

\* lines 88-89
WithVariance(t, proj_col, s) ==
    LET n  == NRows(t)
        u  == Uniform(38, 42, n, s)
        t1 == SetCol(t, "Sim_Mean",
                     [i \in 1..n |-> MulFactor(t.rows[i][proj_col], u.vals[i])])
        v  == Uniform(10, 14, n, u.state)
        t2 == SetCol(t1, "Sim_StdDev",
                     [i \in 1..n |-> MulFactor(t1.rows[i]["Sim_Mean"], v.vals[i])])
    IN  [frame |-> t2, proj_col |-> proj_col, state |-> v.state]

\* lines 94-97
WithBoomBust(t, proj_col, s) ==
    LET n  == NRows(t)
        t1 == SetCol(t, "Floor_10%",
                     [i \in 1..n |-> FloorOf(t.rows[i]["Sim_Mean"], t.rows[i]["Sim_StdDev"])])
        t2 == SetCol(t1, "Ceiling_90%",
                     [i \in 1..n |-> CeilingOf(t1.rows[i]["Sim_Mean"], t1.rows[i]["Sim_StdDev"])])
        b  == Uniform(0, 100 * Scale, n, s)
        t3 == SetCol(t2, "Boom_Score", b.vals)
        t4 == SetCol(t3, "Bust_Risk",
                     [i \in 1..n |-> BustRisk(t3.rows[i]["Boom_Score"])])
    IN  [frame |-> t4, proj_col |-> proj_col, state |-> b.state]

\* lines 103-105
WithGpp(t, proj_col, s) ==
    LET n  == NRows(t)
        l  == Uniform(0, 100 * Scale, n, s)
        t1 == SetCol(t, "Leverage_Score", l.vals)
        t2 == SetCol(t1, "Ceiling_Prob",
                     [i \in 1..n |-> CeilingProb(t1.rows[i]["Boom_Score"])])
        t3 == SetCol(t2, "Consistency",
                     [i \in 1..n |-> ConsistencyOf(t2.rows[i]["Sim_Mean"],
                                                   t2.rows[i]["Sim_StdDev"])])
    IN  [frame |-> t3, proj_col |-> proj_col, state |-> l.state]

-----------------------------------------------------------------------------
(* The results pane, lines 116-150 *)

IdCol(t) == IF HasCol(t, "Name") THEN "Name" ELSE t.cols[1]

Min(a, b) == IF a <= b THEN a ELSE b

\* t.head(n): the first rows, unsorted
NLargestHead(t, n, c) == [r \in 1..Min(n, NRows(t)) |-> r]

\* t.nlargest(n, c): the indices of the min(n, rows) rows largest in c,
\* largest first, equal values in row order (keep = 'first')
NLargest(t, n, c) ==
    LET v == Col(t, c)
        before(j, i) == v[j] > v[i] \/ (v[j] = v[i] /\ j < i)
        rank == [i \in 1..NRows(t) |->
                    Cardinality({j \in 1..NRows(t) : before(j, i)}) + 1]
    IN  [r \in 1..Min(n, NRows(t)) |-> CHOOSE i \in 1..NRows(t) : rank[i] = r]

TopBooms(t) ==
    LET idx == NLargest(t, TopK, "Boom_Score")
    IN  [r \in 1..Len(idx) |->
            [id |-> t.rows[idx[r]][IdCol(t)],
             Boom_Score |-> t.rows[idx[r]]["Boom_Score"],
             Ceiling |-> t.rows[idx[r]]["Ceiling_90%"]]]

RECURSIVE SumSkipNa(_)
SumSkipNa(vals) ==
    IF vals = <<>> THEN 0
    ELSE (IF Head(vals) = NaN THEN 0 ELSE Head(vals)) + SumSkipNa(Tail(vals))

\* f"{series.mean():.1f}": the mean of the values that are not NaN, in tenths,
\* rounded half to even; NaN when there is no such value
MeanTenths(vals) ==
    LET cnt == Cardinality({i \in 1..Len(vals) : vals[i] # NaN})
        num == SumSkipNa(vals) * 10
        den == cnt * Scale
        q   == num \div den
        r   == num % den
    IN  IF cnt = 0 THEN NaN
        ELSE IF 2 * r < den THEN q
        ELSE IF 2 * r > den THEN q + 1
        ELSE IF q % 2 = 0 THEN q ELSE q + 1

\* df_results.to_csv(index = False): the header, then a line per row with the
\* cells in column order
ToCsv(t) ==
    [header |-> t.cols,
     lines  |-> [i \in 1..NRows(t) |->
                   [k \in 1..Len(t.cols) |-> t.rows[i][t.cols[k]]]]]

\* what col2 renders for a given st.session_state.results
Pane(res) ==
    IF res = None THEN None
    ELSE Some([players         |-> NRows(res[1]),
               avg_boom        |-> MeanTenths(Col(res[1], "Boom_Score")),
               avg_consistency |-> MeanTenths(Col(res[1], "Consistency")),
               top_booms       |-> TopBooms(res[1]),
               csv             |-> ToCsv(res[1])])

-----------------------------------------------------------------------------
(* The CSV files a user may upload *)

\* headers: with a projection column; with two candidates (FPTS has priority);
\* without any candidate; holding columns of an earlier download
Headers == { <<"Name", "FPTS">>,
             <<"Name", "Projection", "FPTS">>,
             <<"Name", "Salary">>,
             <<"Name", "Points", "Sim_Mean", "Boom_Score">> }

\* headers of the ranking specification: with and without a Name column
RankHeaders == { <<"Name", "FPTS">>, <<"Player", "FP">> }

NameCols == {"Name", "Player"}

\* identifiers of the rows: ascending, descending, or all the same
NamePatterns == {"asc", "desc", "dup"}

NameAt(np, i, n) ==
    CASE np = "asc"  -> i
      [] np = "desc" -> n + 1 - i
      [] np = "dup"  -> 1

\* numeric cells: a constant number of points, or "mix", the values
\* -1, 0, 1, 2 in turn
ValuePatterns == {<<"const", 0>>, <<"const", 1>>, <<"mix", 0>>}

ValueAt(vp, i) ==
    IF vp[1] = "const" THEN vp[2] ELSE ((i - 1) % 4) - 1

PosOf(h, c) == CHOOSE k \in 1..Len(h) : h[k] = c

\* the k-th column of a header holds the pattern's value plus k - 2 points
MakeFile(h, n, np, vp) ==
    [cols |-> h,
     rows |-> [i \in 1..n |->
                 [c \in {h[k] : k \in 1..Len(h)} |->
                     IF c \in NameCols THEN NameAt(np, i, n)
                     ELSE (ValueAt(vp, i) + PosOf(h, c) - 2) * Scale]]]

Files ==
    { MakeFile(h, n, np, vp) :
        h \in Headers, n \in 0..MaxPlayers, np \in {"asc"}, vp \in ValuePatterns }

RankFiles ==
    { MakeFile(h, n, np, <<"const", 1>>) :
        h \in RankHeaders, n \in (TopK - 1)..MaxRankPlayers, np \in NamePatterns }

DetFiles ==
    { MakeFile(h, n, "asc", <<"const", 1>>) :
        h \in {<<"Name", "FPTS">>, <<"Name", "Salary">>}, n \in 0..MaxDetPlayers }

-----------------------------------------------------------------------------
(* The session *)

Init ==
    /\ uploaded = None
    /\ n_sims = 10000
    /\ results = None
    /\ rng \in {0, RngModulus - 1}
    /\ pc = "idle"
    /\ df = None
    /\ shown = None
    /\ ran = None
    /\ ref = None

\* A script run without a click on the button: any run in progress is stopped
\* and its df dropped, the upload column shows the preview, col2 renders.
Rerun ==
    /\ pc' = "idle"
    /\ df' = None
    /\ shown' = Pane(results)
    /\ UNCHANGED <<results, rng, ran, ref>>

UploadFile(F) ==
    /\ UNCHANGED n_sims
    /\ Rerun
    /\ \E f \in F : uploaded' = Some(f)

RemoveFile ==
    /\ uploaded # None
    /\ uploaded' = None
    /\ UNCHANGED n_sims
    /\ Rerun

SetNSims ==
    /\ UNCHANGED uploaded
    /\ Rerun
    /\ \E n \in NSimsChoices \ {n_sims} : n_sims' = n

\* lines 46-85: the button is clicked with a file uploaded; a run in progress is
\* stopped and a new one starts, up to progress(25)
ClickRun ==
    /\ uploaded # None
    /\ LET p == Prepare(uploaded[1])
       IN  /\ df' = Some([frame |-> p.frame, proj_col |-> p.proj_col])
           /\ rng' = p.state
    /\ pc' = "p25"
    /\ UNCHANGED <<uploaded, n_sims, results, shown, ran, ref>>

\* the frame is stored in the session as soon as the first columns exist
CalcVarianceStoring ==
    /\ pc = "p25"
    /\ LET p == WithVariance(df[1].frame, df[1].proj_col, rng)
       IN  /\ df' = Some([frame |-> p.frame, proj_col |-> p.proj_col])
           /\ rng' = p.state
           /\ results' = Some(p.frame)
    /\ pc' = "p50"
    /\ UNCHANGED <<uploaded, n_sims, shown, ran, ref>>

\* lines 88-92, up to progress(50)
CalcVariance ==
    /\ pc = "p25"
    /\ LET p == WithVariance(df[1].frame, df[1].proj_col, rng)
       IN  /\ df' = Some([frame |-> p.frame, proj_col |-> p.proj_col])
           /\ rng' = p.state
    /\ pc' = "p50"
    /\ UNCHANGED <<uploaded, n_sims, results, shown, ran, ref>>

\* lines 94-100, up to progress(75)
CalcBoomBust ==
    /\ pc = "p50"
    /\ LET p == WithBoomBust(df[1].frame, df[1].proj_col, rng)
       IN  /\ df' = Some([frame |-> p.frame, proj_col |-> p.proj_col])
           /\ rng' = p.state
    /\ pc' = "p75"
    /\ UNCHANGED <<uploaded, n_sims, results, shown, ran, ref>>

\* lines 103-108, up to progress(100)
CalcGpp ==
    /\ pc = "p75"
    /\ LET p == WithGpp(df[1].frame, df[1].proj_col, rng)
       IN  /\ df' = Some([frame |-> p.frame, proj_col |-> p.proj_col])
           /\ rng' = p.state
    /\ pc' = "p100"
    /\ UNCHANGED <<uploaded, n_sims, results, shown, ran, ref>>

\* lines 111-150: the results are stored, the run ends, col2 renders
StoreResults ==
    /\ pc = "p100"
    /\ results' = Some(df[1].frame)
    /\ shown' = Pane(results')
    /\ ran' = uploaded
    /\ pc' = "idle"
    /\ df' = None
    /\ UNCHANGED <<uploaded, n_sims, rng, ref>>

\* history only: remember the completed run, once
Remember ==
    /\ pc = "idle"
    /\ results # None
    /\ ref = None
    /\ ref' = Some([input |-> ran[1], out |-> results[1]])
    /\ UNCHANGED <<uploaded, n_sims, results, rng, pc, df, shown, ran>>

Script ==
    \/ RemoveFile
    \/ SetNSims
    \/ ClickRun
    \/ CalcVariance
    \/ CalcBoomBust
    \/ CalcGpp
    \/ StoreResults

Next == UploadFile(Files) \/ Script

Spec == Init /\ [][Next]_vars

NextRank == UploadFile(RankFiles) \/ Script

SpecRank == Init /\ [][NextRank]_vars

NextDet == UploadFile(DetFiles) \/ Script \/ Remember

SpecDet == Init /\ [][NextDet]_vars

-----------------------------------------------------------------------------
(* Properties *)

ColSet(t) == {t.cols[k] : k \in 1..Len(t.cols)}

R == results[1]

I == ran[1]

Hundred == 100 * Scale

\* every derived column is in the frame
Complete(t) ==
    /\ DerivedCols \subseteq ColSet(t)
    /\ \A i \in 1..NRows(t) : DerivedCols \subseteq DOMAIN t.rows[i]

\* the projection the run used for row i of its results
ProjOf(i) == R.rows[i][DetectProjCol(R)]

\* C1: after a completed run, every row of the results has
\* Boom_Score + Bust_Risk = 100 and both in [0, 100].
C1_BoomBustComplementary ==
    results # None =>
        \A i \in 1..NRows(R) :
            /\ R.rows[i]["Boom_Score"] + R.rows[i]["Bust_Risk"] = Hundred
            /\ 0 <= R.rows[i]["Boom_Score"] /\ R.rows[i]["Boom_Score"] <= Hundred
            /\ 0 <= R.rows[i]["Bust_Risk"] /\ R.rows[i]["Bust_Risk"] <= Hundred

C1_Witness ==
    /\ results # None
    /\ \E i \in 1..NRows(R) :
          /\ R.rows[i]["Boom_Score"] > 0
          /\ R.rows[i]["Bust_Risk"] > 0

\* C2: a player with projection 0 has mean 0, standard deviation 0 and
\* consistency 100 in the results.
C2_ZeroProjection ==
    results # None =>
        \A i \in 1..NRows(R) :
            ProjOf(i) = 0 =>
                /\ R.rows[i]["Sim_Mean"] = 0
                /\ R.rows[i]["Sim_StdDev"] = 0
                /\ R.rows[i]["Consistency"] = Hundred

\* C3 as claimed: for a pool without a projection column no metric column is
\* computed and no results are stored.
C3_MissingProjectionRejected ==
    /\ (pc # "idle" /\ DetectProjCol(uploaded[1]) = "") =>
            ColSet(df[1].frame) \cap DerivedCols = {}
    /\ results # None => DetectProjCol(I) # ""

\* C3 as amended: a pool without a projection column is not rejected; the run
\* gives every player a fabricated Projection in [5, 30), computes every metric
\* column from it and stores the results.
C3_MissingProjectionFabricated ==
    (results # None /\ DetectProjCol(I) = "") =>
        /\ ~ HasCol(I, "Projection")
        /\ HasCol(R, "Projection")
        /\ Complete(R)
        /\ \A i \in 1..NRows(R) :
              /\ 5 * Scale <= R.rows[i]["Projection"]
              /\ R.rows[i]["Projection"] < 30 * Scale
              /\ 100 * R.rows[i]["Sim_Mean"] >= 95 * R.rows[i]["Projection"]
              /\ 100 * R.rows[i]["Sim_Mean"] < 105 * R.rows[i]["Projection"]

C3_Witness ==
    /\ results # None
    /\ DetectProjCol(I) = ""
    /\ NRows(R) >= 2
    /\ R.rows[1]["Projection"] # R.rows[2]["Projection"]

\* C4: every row of the results with a non-negative projection has
\* Floor_10% <= Sim_Mean <= Ceiling_90%.
C4_FloorMeanCeiling ==
    results # None =>
        \A i \in 1..NRows(R) :
            ProjOf(i) >= 0 =>
                /\ R.rows[i]["Floor_10%"] <= R.rows[i]["Sim_Mean"]
                /\ R.rows[i]["Sim_Mean"] <= R.rows[i]["Ceiling_90%"]

C4_Witness ==
    /\ results # None
    /\ \E i \in 1..NRows(R) :
          /\ ProjOf(i) > 0
          /\ R.rows[i]["Floor_10%"] < R.rows[i]["Sim_Mean"]
          /\ R.rows[i]["Sim_Mean"] < R.rows[i]["Ceiling_90%"]

\* C5: a run on the input of a remembered earlier run of the session produces
\* the remembered results table, whatever ran in between; both once its
\* frame is complete and once it is stored.
C5_Deterministic ==
    ref # None =>
        /\ (results # None /\ I = ref[1].input) => R = ref[1].out
        /\ (pc = "p100" /\ uploaded[1] = ref[1].input) => df[1].frame = ref[1].out

\* a later run on the remembered input has finished its frame, after a run on
\* another input was stored in between
C5_Witness ==
    /\ ref # None
    /\ pc = "p100"
    /\ uploaded[1] = ref[1].input
    /\ NRows(df[1].frame) >= 2
    /\ df[1].frame = ref[1].out
    /\ I # ref[1].input

Top == shown[1].top_booms

UniqueIds(t) ==
    \A i, j \in 1..NRows(t) : t.rows[i][IdCol(t)] = t.rows[j][IdCol(t)] => i = j

\* C6: the top boom plays view has min(10, P) rows for results of P rows, in
\* descending order of boom score, each a row of the results and none of the
\* rows left out above the last one shown; when the identifiers of the pool
\* are unique no identifier is shown twice.
C6_TopBooms ==
    shown # None =>
        /\ results # None
        /\ Len(Top) = (IF NRows(R) < 10 THEN NRows(R) ELSE 10)
        /\ \A r \in 1..(Len(Top) - 1) : Top[r].Boom_Score >= Top[r + 1].Boom_Score
        /\ \A r \in 1..Len(Top) :
              \E i \in 1..NRows(R) :
                  /\ R.rows[i][IdCol(R)] = Top[r].id
                  /\ R.rows[i]["Boom_Score"] = Top[r].Boom_Score
                  /\ R.rows[i]["Ceiling_90%"] = Top[r].Ceiling
        /\ UniqueIds(R) =>
              /\ \A r, q \in 1..Len(Top) : Top[r].id = Top[q].id => r = q
              /\ \A i \in 1..NRows(R) :
                    (\A r \in 1..Len(Top) : Top[r].id # R.rows[i][IdCol(R)]) =>
                        R.rows[i]["Boom_Score"] <= Top[Len(Top)].Boom_Score

\* a pool of more than 10 players with unique identifiers: 10 rows are shown,
\* not all of one score
C6_Witness ==
    /\ shown # None
    /\ NRows(R) > 10
    /\ UniqueIds(R)
    /\ Len(Top) = 10
    /\ Top[1].Boom_Score > Top[10].Boom_Score

C8_OneRowPerPlayer ==
    results # None =>
        /\ NRows(R) = NRows(I)
        /\ \A i \in 1..NRows(I) : R.rows[i][IdCol(I)] = I.rows[i][IdCol(I)]
        /\ UniqueIds(I) => UniqueIds(R)

C8_Witness ==
    /\ results # None
    /\ NRows(I) >= 2
    /\ NRows(R) = NRows(I)
    /\ R.rows[1][IdCol(I)] # R.rows[2][IdCol(I)]

\* C9: the stored results are None or complete; they change only in the last
\* step of a run, to that run's frame; once set they are never None again;
\* the pane shows Awaiting Data exactly while they are None and otherwise the
\* table of the most recently completed run.
C9_NeverPartial ==
    /\ [](results # None => Complete(R))
    /\ []((shown = None) <=> (results = None))
    /\ [](shown # None =>
            /\ shown[1].players = NRows(R)
            /\ shown[1].csv.header = R.cols
            /\ \A i \in 1..NRows(R) : \A k \in 1..Len(R.cols) :
                  shown[1].csv.lines[i][k] = R.rows[i][R.cols[k]])
    /\ [][results # None => results' # None]_vars
    /\ [][results' # results =>
            (pc = "p100" /\ pc' = "idle" /\ results' = Some(df[1].frame)
             /\ Complete(df[1].frame) /\ ran' = uploaded)]_vars

\* a run on another file is under way with part of its columns computed, while
\* the session holds the complete results of the earlier run
C9_Witness ==
    /\ results # None
    /\ pc = "p50"
    /\ uploaded # ran
    /\ ~ Complete(df[1].frame)
    /\ shown # None

\* C10 as claimed: every column of the uploaded table has its uploaded values
\* in the results, and the run adds the nine derived columns only.
C10_InputColumnsUnchanged ==
    results # None =>
        /\ \A c \in ColSet(I) : \A i \in 1..NRows(I) : R.rows[i][c] = I.rows[i][c]
        /\ ColSet(R) \ ColSet(I) \subseteq DerivedCols

\* C10 as amended: every uploaded column that is not named like a derived
\* column has its uploaded values in the results; the columns of the results
\* are the uploaded ones, the nine derived ones and, when the upload has no
\* projection column, Projection.
C10_OtherInputColumnsKept ==
    results # None =>
        /\ NRows(R) = NRows(I)
        /\ \A c \in ColSet(I) \ DerivedCols :
              \A i \in 1..NRows(I) : R.rows[i][c] = I.rows[i][c]
        /\ ColSet(R) = ColSet(I) \cup DerivedCols \cup
                         (IF DetectProjCol(I) = "" THEN {"Projection"} ELSE {})

\* an upload with its own Sim_Mean column: the run has replaced its values
C10_Witness ==
    /\ results # None
    /\ HasCol(I, "Sim_Mean")
    /\ \E i \in 1..NRows(I) : R.rows[i]["Sim_Mean"] # I.rows[i]["Sim_Mean"]

====
